---- MODULE Spec2Model ----
(***************************************************************************)
(* Sequential image-processing benchmark (codebase.cpp): the Image buffer,  *)
(* the five pixel kernels and main's pipeline, with C++ int arithmetic kept *)
(* at 32 bits and the double arithmetic of the grayscale conversion and of  *)
(* the average modelled bit-exactly (IEEE-754 binary64, round to nearest    *)
(* even).                                                                   *)
(***************************************************************************)
EXTENDS Integers, Sequences, FiniteSets, TLC

(***************************************************************************)
(* Bounds of the model.                                                     *)
(***************************************************************************)
\* Largest pixel count width*height of an image the model builds.
MaxPixels == 4
\* Largest number of kernel calls in one run of the call harness (SpecOps).
MaxCalls == 2

(***************************************************************************)
(* 32-bit signed int.                                                       *)
(***************************************************************************)
\* INT_MAX of the int type used for sizes, indices and newVal.
IntMax == 2147483647
IntMin == -IntMax - 1

\* How a build treats signed int overflow, which is undefined behaviour:
\* two's-complement wrap-around (the plain x86 build, -fwrapv) or a trap
\* that aborts the process (-ftrapv, -fsanitize=signed-integer-overflow).
OverflowModes == {"wrap", "trap"}

\* Whether a build contracts a*b + c into a fused multiply-add (GCC's default
\* -ffp-contract=fast on a target with FMA) or rounds every operation.
ContractModes == {FALSE, TRUE}

\* unsigned char conversion of an int: reduction modulo 2^8.
ToUChar(x) == x % 256

\* The C++ % operator on ints with a positive divisor: the remainder has the
\* sign of the dividend (truncated division).
CRem(x, m) ==
    LET rr == x % m
    IN  IF x < 0 /\ rr # 0 THEN rr - m ELSE rr

\* a + k on int where a is a converted unsigned char (0..255):
\* [ok |-> TRUE, v |-> sum] or, on overflow, the wrapped sum / a trap.
AddInt(a, k, mode) ==
    IF k > IntMax - a
    THEN IF mode = "wrap"
         THEN [ok |-> TRUE, v |-> (k - IntMax) + a - IntMax - 2]
         ELSE [ok |-> FALSE, v |-> 0]
    ELSE [ok |-> TRUE, v |-> a + k]

\* The low 32 bits of i * k as a signed int, for 0 <= i <= IntMax and
\* 0 <= k < 2^15, computed on 16-bit halves.
WrapMul(i, k) ==
    LET al == i % 65536
        ah == i \div 65536
        lo == (al * k) % 65536
        hi == (ah * k + (al * k) \div 65536) % 65536
    IN  (IF hi >= 32768 THEN hi - 65536 ELSE hi) * 65536 + lo

\* i * k on int for i >= 0, k > 0: the product, or on overflow the wrapped
\* product / a trap.
MulInt(i, k, mode) ==
    IF i > IntMax \div k
    THEN IF mode = "wrap"
         THEN [ok |-> TRUE, v |-> WrapMul(i, k)]
         ELSE [ok |-> FALSE, v |-> 0]
    ELSE [ok |-> TRUE, v |-> i * k]

(***************************************************************************)
(* binary64 arithmetic on values in [0, 2^9), held exactly as integers in   *)
(* units of 2^-56: <<a2, a1, a0>> is a2*2^44 + a1*2^22 + a0, a1, a0 < 2^22. *)
(***************************************************************************)
Limb == 2^22

BitLen(n) == CHOOSE k \in 0..31 : (k = 0 \/ 2^(k-1) <= n) /\ (k = 31 \/ n < 2^k)

BigBitLen(x) ==
    IF x[1] > 0 THEN 44 + BitLen(x[1])
    ELSE IF x[2] > 0 THEN 22 + BitLen(x[2])
    ELSE BitLen(x[3])

BigAdd(x, y) ==
    LET s0 == x[3] + y[3]
        s1 == x[2] + y[2] + s0 \div Limb
    IN  <<x[1] + y[1] + s1 \div Limb, s1 % Limb, s0 % Limb>>

BigMulSmall(x, k) ==
    LET p0 == x[3] * k
        p1 == x[2] * k + p0 \div Limb
    IN  <<x[1] * k + p1 \div Limb, p1 % Limb, p0 % Limb>>

\* Quotient and remainder of x by a small positive integer.
BigDivSmall(x, d) ==
    LET q2 == x[1] \div d
        r2 == x[1] % d
        n1 == r2 * Limb + x[2]
        q1 == n1 \div d
        r1 == n1 % d
        n0 == r1 * Limb + x[3]
    IN  [q |-> <<q2, q1, n0 \div d>>, rem |-> n0 % d]

\* Round to nearest, ties to even, to a 53-bit significand. sticky says that
\* the exact value lies strictly above x (bits below 2^-56 were cut).
RoundDouble(x, sticky) ==
    LET s == BigBitLen(x) - 53
    IN  IF s <= 0 THEN x
        ELSE LET unit == 2^s
                 low  == x[3] % unit
                 half == unit \div 2
                 odd  == (x[3] \div unit) % 2 = 1
                 down == <<x[1], x[2], x[3] - low>>
                 up   == low > half \/ (low = half /\ (sticky \/ odd))
             IN  IF up THEN BigAdd(down, <<0, 0, unit>>) ELSE down

\* double -> int conversion of a non-negative value: truncation.
Trunc(x) == x[1] \div 4096

\* The integer n as a double.
FromInt(n) == <<n * 4096, 0, 0>>

\* The double literals 0.299, 0.587 and 0.114:
\* 0x1.322d0e5604189p-2, 0x1.2c8b439581062p-1, 0x1.d2f1a9fbe76c9p-4.
W_R == <<1224, 2952790, 67108>>
W_G == <<2404, 1476395, 33552>>
W_B == <<466, 3959422, 4093641>>

(***************************************************************************)
(* The kernels' loop bodies, one pixel each.                                *)
(***************************************************************************)
\* generateImageData's loop body at index i: the three channel values, or a
\* trap when a product overflows in a trapping build.
GenPixel(i, mode) ==
    LET pr == MulInt(i, 123, mode)
        pg == MulInt(i, 456, mode)
        pb == MulInt(i, 789, mode)
    IN  IF pr.ok /\ pg.ok /\ pb.ok
        THEN [ok |-> TRUE, r |-> ToUChar(CRem(pr.v, 256)),
              g |-> ToUChar(CRem(pg.v, 256)), b |-> ToUChar(CRem(pb.v, 256))]
        ELSE [ok |-> FALSE, r |-> 0, g |-> 0, b |-> 0]

\* convertToGrayscale's loop body: (unsigned char)(0.299*r + 0.587*g + 0.114*b)
\* in double arithmetic. Uncontracted, each product and each sum is rounded;
\* contracted, 0.299*r and 0.114*b enter their additions unrounded (fma).
\* WeightedSum is the double before its conversion.
WeightedSum(rv, gv, bv, fma) ==
    LET pg == RoundDouble(BigMulSmall(W_G, gv), FALSE)
        s1 == IF fma
              THEN RoundDouble(BigAdd(BigMulSmall(W_R, rv), pg), FALSE)
              ELSE RoundDouble(BigAdd(RoundDouble(BigMulSmall(W_R, rv), FALSE), pg), FALSE)
    IN  IF fma
        THEN RoundDouble(BigAdd(s1, BigMulSmall(W_B, bv)), FALSE)
        ELSE RoundDouble(BigAdd(s1, RoundDouble(BigMulSmall(W_B, bv), FALSE)), FALSE)

\* Faulty variant: the sum rounded to the nearest integer instead of truncated.
GrayPixelRounded(rv, gv, bv, fma) ==
    ToUChar(Trunc(BigAdd(WeightedSum(rv, gv, bv, fma), <<2048, 0, 0>>)))

GrayPixel(rv, gv, bv, fma) == ToUChar(Trunc(WeightedSum(rv, gv, bv, fma)))

\* adjustBrightness's loop body: newVal = gray + offset, clamped to 0..255.
BrightPixel(gv, offset, mode) ==
    LET nv == AddInt(gv, offset, mode)
        c1 == IF nv.v > 255 THEN 255 ELSE nv.v
        c2 == IF c1 < 0 THEN 0 ELSE c1
    IN  [ok |-> nv.ok, v |-> ToUChar(c2)]

\* Faulty variant: the comparison made strict.
ThresholdPixelStrict(gv, threshold) == IF gv > threshold THEN 255 ELSE 0

\* Faulty variant: the two branches exchanged.
ThresholdPixelInverted(gv, threshold) == IF gv >= threshold THEN 0 ELSE 255

\* applyThreshold's loop body.
ThresholdPixel(gv, threshold) == IF gv >= threshold THEN 255 ELSE 0

(***************************************************************************)
(* The Image and the kernels as whole calls.                                *)
(***************************************************************************)
Zeros(n) == [k \in 1..n |-> 0]

\* Image(w, h): the four channels resized to w*h zero bytes.
Image(w, h) ==
    LET size == w * h
    IN  [width |-> w, height |-> h, r |-> Zeros(size), g |-> Zeros(size),
         b |-> Zeros(size), gray |-> Zeros(size)]

\* int size = img.width * img.height;
SizeOf(im) == im.width * im.height

\* One iteration of each kernel's loop at index i (0-based, as in the code;
\* sequences are 1-based).
GenBody(im, i, mode) ==
    LET p == GenPixel(i, mode)
    IN  [ok |-> p.ok,
         img |-> IF p.ok
                 THEN [im EXCEPT !.r[i+1] = p.r, !.g[i+1] = p.g, !.b[i+1] = p.b]
                 ELSE im]

GrayBody(im, i, fma) ==
    [im EXCEPT !.gray[i+1] = GrayPixel(im.r[i+1], im.g[i+1], im.b[i+1], fma)]

SumBody(acc, im, i) == acc + im.gray[i+1]

\* Faulty variant: the pixel is brightened from its left neighbour's value.
BrightBodyNeighbour(im, i, offset, mode) ==
    LET p == BrightPixel(im.gray[IF i > 0 THEN i ELSE i + 1], offset, mode)
    IN  [ok |-> p.ok, img |-> IF p.ok THEN [im EXCEPT !.gray[i+1] = p.v] ELSE im]

BrightBody(im, i, offset, mode) ==
    LET p == BrightPixel(im.gray[i+1], offset, mode)
    IN  [ok |-> p.ok, img |-> IF p.ok THEN [im EXCEPT !.gray[i+1] = p.v] ELSE im]

\* Faulty variant: the result is appended to the channel instead of stored at i.
ThresholdBodyAppend(im, i, threshold) ==
    [im EXCEPT !.gray = Append(@, ThresholdPixel(im.gray[i+1], threshold))]

ThresholdBody(im, i, threshold) ==
    [im EXCEPT !.gray[i+1] = ThresholdPixel(im.gray[i+1], threshold)]

RECURSIVE GenLoop(_, _, _, _)
GenLoop(im, i, size, mode) ==
    IF i < size
    THEN LET st == GenBody(im, i, mode)
         IN  IF st.ok THEN GenLoop(st.img, i + 1, size, mode) ELSE st
    ELSE [ok |-> TRUE, img |-> im]

generateImageData(im, mode) == GenLoop(im, 0, SizeOf(im), mode)

RECURSIVE GrayLoop(_, _, _, _)
GrayLoop(im, i, size, fma) ==
    IF i < size THEN GrayLoop(GrayBody(im, i, fma), i + 1, size, fma) ELSE im

convertToGrayscale(im, fma) == GrayLoop(im, 0, SizeOf(im), fma)

RECURSIVE SumLoop(_, _, _, _)
SumLoop(acc, im, i, size) ==
    IF i < size THEN SumLoop(SumBody(acc, im, i), im, i + 1, size) ELSE acc

\* Faulty variant: the division made on integers, then converted.
AverageOfIntegerDivision(acc, size) ==
    IF size = 0
    THEN [nan |-> TRUE, v |-> <<0, 0, 0>>]
    ELSE [nan |-> FALSE, v |-> FromInt(acc \div size)]

\* (double)sum / size: the correctly rounded quotient, NaN for 0/0. The
\* quotient is formed in units of 2^-56, which holds every bit the rounding
\* reads as long as size <= 8 and acc < 2^19.
AverageOf(acc, size) ==
    IF size = 0
    THEN [nan |-> TRUE, v |-> <<0, 0, 0>>]
    ELSE LET d == BigDivSmall(FromInt(acc), size)
         IN  [nan |-> FALSE, v |-> RoundDouble(d.q, d.rem # 0)]

calculateAverageGray(im) ==
    AverageOf(SumLoop(0, im, 0, SizeOf(im)), SizeOf(im))

RECURSIVE BrightLoop(_, _, _, _, _)
BrightLoop(im, i, size, offset, mode) ==
    IF i < size
    THEN LET st == BrightBody(im, i, offset, mode)
         IN  IF st.ok THEN BrightLoop(st.img, i + 1, size, offset, mode) ELSE st
    ELSE [ok |-> TRUE, img |-> im]

adjustBrightness(im, offset, mode) == BrightLoop(im, 0, SizeOf(im), offset, mode)

RECURSIVE ThresholdLoop(_, _, _, _)
ThresholdLoop(im, i, size, threshold) ==
    IF i < size
    THEN ThresholdLoop(ThresholdBody(im, i, threshold), i + 1, size, threshold)
    ELSE im

applyThreshold(im, threshold) == ThresholdLoop(im, 0, SizeOf(im), threshold)

(***************************************************************************)
(* State.                                                                   *)
(***************************************************************************)
VARIABLES
    pc,        \* position of main / of the harness
    argc,      \* main's argc
    width,     \* main's local width
    height,    \* main's local height
    img,       \* the Image
    i,         \* the running kernel's loop index
    sum,       \* calculateAverageGray's accumulator
    avg,       \* avgGray
    overflow,  \* the build's treatment of signed overflow
    contract,  \* the build's floating-point contraction
    made,      \* the width and height the Image was constructed with
    hist,      \* the kernel calls made so far, oldest first
    pre,       \* the Image as it was before the latest call
    trace,     \* main's stages completed so far, oldest first
    touched,   \* per stage of main, the pixel indices it has processed
    px,        \* result of a loop body applied to one sampled pixel
    todo,      \* pixel indices not yet processed by the workers
    partial    \* the workers' partial sums

vars == <<pc, argc, width, height, img, i, sum, avg, overflow, contract, made,
          hist, pre, trace, touched, px, todo, partial>>

NoImage == [width |-> 0, height |-> 0, r |-> <<>>, g |-> <<>>, b |-> <<>>, gray |-> <<>>]
NoAvg == [nan |-> FALSE, v |-> <<0, 0, 0>>]
NoPixel == [op |-> "none", ok |-> TRUE, r |-> 0, g |-> 0, b |-> 0, gray |-> 0]

Stages == <<"generate", "grayscale", "average", "brighten", "threshold">>
NoTouch == [s \in {Stages[k] : k \in 1..Len(Stages)} |-> {}]

(***************************************************************************)
(* main.                                                                    *)
(***************************************************************************)
\* The values atoi may return for an argument.
ArgVals == (-2)..MaxPixels

DefaultWidth == 1024
DefaultHeight == 1024

\* Faulty variant: the brightness adjustment made before the average.
NextStageBrightenFirst(s) ==
    CASE s = "generate"  -> "grayscale"
      [] s = "grayscale" -> "brighten"
      [] s = "brighten"  -> "average"
      [] s = "average"   -> "threshold"
      [] s = "threshold" -> "done"

\* The stage main runs after stage s.
NextStage(s) ==
    CASE s = "generate"  -> "grayscale"
      [] s = "grayscale" -> "average"
      [] s = "average"   -> "brighten"
      [] s = "brighten"  -> "threshold"
      [] s = "threshold" -> "done"

InitMain ==
    /\ pc = "start"
    /\ argc \in 1..3
    /\ width = DefaultWidth
    /\ height = DefaultHeight
    /\ img = NoImage
    /\ i = 0
    /\ sum = 0
    /\ avg = NoAvg
    /\ overflow \in OverflowModes
    /\ contract \in ContractModes
    /\ made = <<0, 0>>
    /\ hist = <<>>
    /\ pre = NoImage
    /\ trace = <<>>
    /\ touched = NoTouch
    /\ px = NoPixel
    /\ todo = {}
    /\ partial = <<>>

\* if (argc > 1) { width = atoi(argv[1]); height = atoi(argv[2]); }
\* With exactly one argument argv[2] is the null pointer that ends argv, and
\* atoi of it is undefined: the process faults, or atoi returns some int.
ParseArgs ==
    /\ pc = "start"
    /\ IF argc > 1
       THEN /\ width' \in ArgVals
            /\ \/ /\ height' \in ArgVals
                  /\ pc' = "construct"
               \/ /\ argc = 2
                  /\ height' = height
                  /\ pc' = "crashed"
       ELSE /\ UNCHANGED <<width, height>>
            /\ pc' = "construct"
    /\ UNCHANGED <<argc, img, i, sum, avg, overflow, contract, made, hist, pre,
                   trace, touched, px, todo, partial>>

\* Image img(width, height): a negative size converts to a huge size_t and
\* resize throws std::length_error, which nothing catches. Images of more
\* than MaxPixels pixels (the default 1024 x 1024 among them) are not built.
Construct ==
    /\ pc = "construct"
    /\ width * height <= MaxPixels
    /\ IF width * height < 0
       THEN /\ pc' = "crashed"
            /\ UNCHANGED <<img, made>>
       ELSE /\ img' = Image(width, height)
            /\ made' = <<width, height>>
            /\ pc' = "generate"
    /\ UNCHANGED <<argc, width, height, i, sum, avg, overflow, contract, hist,
                   pre, trace, touched, px, todo, partial>>

\* The loop's exit (i reaches size): the call returns and main moves on.
StageReturn(s) ==
    /\ pc = s
    /\ ~(i < SizeOf(img))
    /\ pc' = NextStage(s)
    /\ i' = 0
    /\ trace' = Append(trace, s)

MainGenerateStep ==
    /\ pc = "generate"
    /\ i < SizeOf(img)
    /\ LET st == GenBody(img, i, overflow)
       IN  IF st.ok
           THEN /\ img' = st.img
                /\ i' = i + 1
                /\ touched' = [touched EXCEPT !["generate"] = @ \cup {i}]
                /\ pc' = pc
           ELSE /\ pc' = "crashed"
                /\ UNCHANGED <<img, i, touched>>
    /\ UNCHANGED <<argc, width, height, sum, avg, overflow, contract, made, hist,
                   pre, trace, px, todo, partial>>

MainGenerateReturn ==
    /\ StageReturn("generate")
    /\ UNCHANGED <<argc, width, height, img, sum, avg, overflow, contract, made,
                   hist, pre, touched, px, todo, partial>>

MainGrayscaleStep ==
    /\ pc = "grayscale"
    /\ i < SizeOf(img)
    /\ img' = GrayBody(img, i, contract)
    /\ i' = i + 1
    /\ touched' = [touched EXCEPT !["grayscale"] = @ \cup {i}]
    /\ UNCHANGED <<pc, argc, width, height, sum, avg, overflow, contract, made,
                   hist, pre, trace, px, todo, partial>>

MainGrayscaleReturn ==
    /\ StageReturn("grayscale")
    /\ UNCHANGED <<argc, width, height, img, sum, avg, overflow, contract, made,
                   hist, pre, touched, px, todo, partial>>

MainAverageStep ==
    /\ pc = "average"
    /\ i < SizeOf(img)
    /\ sum' = SumBody(sum, img, i)
    /\ i' = i + 1
    /\ touched' = [touched EXCEPT !["average"] = @ \cup {i}]
    /\ UNCHANGED <<pc, argc, width, height, img, avg, overflow, contract, made,
                   hist, pre, trace, px, todo, partial>>

MainAverageReturn ==
    /\ StageReturn("average")
    /\ avg' = AverageOf(sum, SizeOf(img))
    /\ UNCHANGED <<argc, width, height, img, sum, overflow, contract, made,
                   hist, pre, touched, px, todo, partial>>

\* adjustBrightness(img, 20)
MainOffset == 20
\* applyThreshold(img, 128)
MainThreshold == 128

MainBrightenStep ==
    /\ pc = "brighten"
    /\ i < SizeOf(img)
    /\ LET st == BrightBody(img, i, MainOffset, overflow)
       IN  IF st.ok
           THEN /\ img' = st.img
                /\ i' = i + 1
                /\ touched' = [touched EXCEPT !["brighten"] = @ \cup {i}]
                /\ pc' = pc
           ELSE /\ pc' = "crashed"
                /\ UNCHANGED <<img, i, touched>>
    /\ UNCHANGED <<argc, width, height, sum, avg, overflow, contract, made, hist,
                   pre, trace, px, todo, partial>>

MainBrightenReturn ==
    /\ StageReturn("brighten")
    /\ UNCHANGED <<argc, width, height, img, sum, avg, overflow, contract, made,
                   hist, pre, touched, px, todo, partial>>

MainThresholdStep ==
    /\ pc = "threshold"
    /\ i < SizeOf(img)
    /\ img' = ThresholdBody(img, i, ToUChar(MainThreshold))
    /\ i' = i + 1
    /\ touched' = [touched EXCEPT !["threshold"] = @ \cup {i}]
    /\ UNCHANGED <<pc, argc, width, height, sum, avg, overflow, contract, made,
                   hist, pre, trace, px, todo, partial>>

\* Reaching "done": return 0.
MainThresholdReturn ==
    /\ StageReturn("threshold")
    /\ UNCHANGED <<argc, width, height, img, sum, avg, overflow, contract, made,
                   hist, pre, touched, px, todo, partial>>

Next ==
    \/ ParseArgs
    \/ Construct
    \/ MainGenerateStep
    \/ MainGenerateReturn
    \/ MainGrayscaleStep
    \/ MainGrayscaleReturn
    \/ MainAverageStep
    \/ MainAverageReturn
    \/ MainBrightenStep
    \/ MainBrightenReturn
    \/ MainThresholdStep
    \/ MainThresholdReturn

Spec == InitMain /\ [][Next]_vars

(***************************************************************************)
(* The kernels called on any image, in any order (SpecOps).                 *)
(***************************************************************************)
\* Pixels a caller may have stored in the channels before a call.
SamplePixels ==
    << [r |-> 1,   g |-> 1,   b |-> 1,   gray |-> 0],
       [r |-> 0,   g |-> 78,  b |-> 151, gray |-> 127],
       [r |-> 255, g |-> 255, b |-> 255, gray |-> 128],
       [r |-> 12,  g |-> 200, b |-> 7,   gray |-> 255] >>

\* The pixel sequences of length n the images start with: the sample pixels
\* taken cyclically from any start with any stride (stride 0: a uniform
\* image; start 0, stride 1: the samples in order).
Contents(n) ==
    { [k \in 1..n |-> SamplePixels[((start + (k - 1) * stride) % Len(SamplePixels)) + 1]] :
        start \in 0..(Len(SamplePixels) - 1), stride \in 0..(Len(SamplePixels) - 1) }

\* The offsets and thresholds the calls are made with.
Offsets == {IntMin, -20, 0, 20, IntMax - 128, IntMax}
Thresholds == {0, 1, 128, 255}

\* The channels of im overwritten with the pixels ps.
Populate(im, ps) ==
    [im EXCEPT !.r = [k \in DOMAIN ps |-> ps[k].r],
               !.g = [k \in DOMAIN ps |-> ps[k].g],
               !.b = [k \in DOMAIN ps |-> ps[k].b],
               !.gray = [k \in DOMAIN ps |-> ps[k].gray]]

\* Constructed images of at least one and at most MaxPixels pixels.
Dims == {d \in (1..MaxPixels) \X (1..MaxPixels) : d[1] * d[2] <= MaxPixels}

InitImage ==
    /\ argc = 1
    /\ width = DefaultWidth
    /\ height = DefaultHeight
    /\ \E d \in Dims :
          /\ made = d
          /\ \E ps \in Contents(Len(Image(d[1], d[2]).gray)) :
                img = Populate(Image(d[1], d[2]), ps)
    /\ i = 0
    /\ sum = 0
    /\ avg = NoAvg
    /\ overflow \in OverflowModes
    /\ contract \in ContractModes
    /\ pre = img
    /\ trace = <<>>
    /\ touched = NoTouch
    /\ px = NoPixel

InitOps ==
    /\ pc = "idle"
    /\ InitImage
    /\ hist = <<>>
    /\ todo = {}
    /\ partial = <<>>

\* What every call leaves alone, and what it records.
Called(op, arg) ==
    /\ pc = "idle"
    /\ Len(hist) < MaxCalls
    /\ hist' = Append(hist, [op |-> op, arg |-> arg])
    /\ pre' = img
    /\ UNCHANGED <<argc, width, height, i, overflow, contract, made, trace,
                   touched, px, todo, partial>>

CallGenerate ==
    /\ Called("generateImageData", 0)
    /\ LET st == generateImageData(img, overflow)
       IN  /\ img' = st.img
           /\ pc' = IF st.ok THEN "idle" ELSE "crashed"
    /\ UNCHANGED <<sum, avg>>

CallGrayscale ==
    /\ Called("convertToGrayscale", 0)
    /\ img' = convertToGrayscale(img, contract)
    /\ UNCHANGED <<pc, sum, avg>>

CallAverage ==
    /\ Called("calculateAverageGray", 0)
    /\ sum' = SumLoop(0, img, 0, SizeOf(img))
    /\ avg' = calculateAverageGray(img)
    /\ UNCHANGED <<pc, img>>

CallBrightness ==
    \E offset \in Offsets :
        /\ Called("adjustBrightness", offset)
        /\ LET st == adjustBrightness(img, offset, overflow)
           IN  /\ img' = st.img
               /\ pc' = IF st.ok THEN "idle" ELSE "crashed"
        /\ UNCHANGED <<sum, avg>>

CallThreshold ==
    \E threshold \in Thresholds :
        /\ Called("applyThreshold", threshold)
        /\ img' = applyThreshold(img, threshold)
        /\ UNCHANGED <<pc, sum, avg>>

NextOps ==
    \/ CallGenerate
    \/ CallGrayscale
    \/ CallAverage
    \/ CallBrightness
    \/ CallThreshold

SpecOps == InitOps /\ [][NextOps]_vars

(***************************************************************************)
(* The loop bodies of generateImageData and convertToGrayscale on sampled   *)
(* inputs (SpecPixel): indices up to INT_MAX, which no image of the model   *)
(* can hold, and a grid of (R, G, B) values.                                *)
(***************************************************************************)
\* How many consecutive indices are sampled at each place of interest.
MaxDelta == 7
\* How many channel values are sampled at each end of 0..255.
MaxLow == 3

\* Indices around the first overflow of i*789, i*456 and i*123, the lowest
\* and the highest.
SampleIdx ==
    { base + d : base \in {0, IntMax \div 789 - 3, IntMax \div 456 - 3,
                           IntMax \div 123 - 3, IntMax - 1 - MaxDelta},
                 d \in 0..MaxDelta }

ChannelVals == (0..MaxLow) \cup {24, 72, 78, 151} \cup ((255 - MaxLow)..255)

InitPixel ==
    /\ argc = 1
    /\ width = DefaultWidth
    /\ height = DefaultHeight
    /\ sum = 0
    /\ avg = NoAvg
    /\ overflow \in OverflowModes
    /\ contract \in ContractModes
    /\ hist = <<>>
    /\ trace = <<>>
    /\ touched = NoTouch
    /\ todo = {}
    /\ partial = <<>>
    /\ px = NoPixel
    /\ \/ /\ pc = "gen_in"
          /\ i \in SampleIdx
          /\ img = NoImage
          /\ made = <<0, 0>>
       \/ /\ pc = "gray_in"
          /\ i = 0
          /\ made = <<1, 2>>
          /\ \E rv \in ChannelVals, gv \in ChannelVals, bv \in ChannelVals :
                img = Populate(Image(1, 2),
                               << [r |-> rv, g |-> gv, b |-> bv, gray |-> 0],
                                  SamplePixels[4] >>)
    /\ pre = img

\* Iteration i of generateImageData's loop.
GenAt ==
    /\ pc = "gen_in"
    /\ LET p == GenPixel(i, overflow)
       IN  /\ px' = [op |-> "gen", ok |-> p.ok, r |-> p.r, g |-> p.g, b |-> p.b,
                     gray |-> 0]
           /\ pc' = IF p.ok THEN "gen_out" ELSE "crashed"
    /\ UNCHANGED <<argc, width, height, img, i, sum, avg, overflow, contract,
                   made, hist, pre, trace, touched, todo, partial>>

\* convertToGrayscale on a two-pixel image.
GrayAt ==
    /\ pc = "gray_in"
    /\ img' = convertToGrayscale(img, contract)
    /\ pc' = "gray_out"
    /\ UNCHANGED <<argc, width, height, i, sum, avg, overflow, contract, made,
                   hist, pre, trace, touched, px, todo, partial>>

NextPixel == GenAt \/ GrayAt

SpecPixel == InitPixel /\ [][NextPixel]_vars

(***************************************************************************)
(* One kernel's loop run over the indices in any order, the sum gathered    *)
(* by several workers (SpecPar).                                            *)
(***************************************************************************)
NumWorkers == 2
Workers == 1..NumWorkers

ParCalls ==
    {[op |-> "convertToGrayscale", arg |-> 0], [op |-> "calculateAverageGray", arg |-> 0]}
    \cup {[op |-> "adjustBrightness", arg |-> o] : o \in Offsets}
    \cup {[op |-> "applyThreshold", arg |-> t] : t \in Thresholds}

InitPar ==
    /\ pc = "par"
    /\ InitImage
    /\ \E c \in ParCalls : hist = <<c>>
    /\ todo = 0..(SizeOf(img) - 1)
    /\ partial = [w \in Workers |-> 0]

ParFrame ==
    UNCHANGED <<argc, width, height, i, overflow, contract, made, hist, pre,
               trace, touched, px>>

ParGrayscale ==
    \E k \in todo :
        /\ pc = "par"
        /\ hist[1].op = "convertToGrayscale"
        /\ img' = GrayBody(img, k, contract)
        /\ todo' = todo \ {k}
        /\ UNCHANGED <<pc, sum, avg, partial>>
        /\ ParFrame

ParBrightness ==
    \E k \in todo :
        /\ pc = "par"
        /\ hist[1].op = "adjustBrightness"
        /\ LET st == BrightBody(img, k, hist[1].arg, overflow)
           IN  /\ img' = st.img
               /\ pc' = IF st.ok THEN "par" ELSE "crashed"
        /\ todo' = todo \ {k}
        /\ UNCHANGED <<sum, avg, partial>>
        /\ ParFrame

ParThreshold ==
    \E k \in todo :
        /\ pc = "par"
        /\ hist[1].op = "applyThreshold"
        /\ img' = ThresholdBody(img, k, hist[1].arg)
        /\ todo' = todo \ {k}
        /\ UNCHANGED <<pc, sum, avg, partial>>
        /\ ParFrame

ParAverage ==
    \E k \in todo, w \in Workers :
        /\ pc = "par"
        /\ hist[1].op = "calculateAverageGray"
        /\ partial' = [partial EXCEPT ![w] = SumBody(@, img, k)]
        /\ todo' = todo \ {k}
        /\ UNCHANGED <<pc, img, sum, avg>>
        /\ ParFrame

RECURSIVE SumPartials(_, _)
SumPartials(ps, n) == IF n = 0 THEN 0 ELSE ps[n] + SumPartials(ps, n - 1)

\* Every index is processed: the partial sums are combined, then divided.
ParJoin ==
    /\ pc = "par"
    /\ todo = {}
    /\ pc' = "joined"
    /\ IF hist[1].op = "calculateAverageGray"
       THEN /\ sum' = SumPartials(partial, NumWorkers)
            /\ avg' = AverageOf(sum', SizeOf(img))
       ELSE UNCHANGED <<sum, avg>>
    /\ UNCHANGED <<img, todo, partial>>
    /\ ParFrame

NextPar ==
    \/ ParGrayscale
    \/ ParBrightness
    \/ ParThreshold
    \/ ParAverage
    \/ ParJoin

SpecPar == InitPar /\ [][NextPar]_vars

(***************************************************************************)
(* Properties.                                                              *)
(***************************************************************************)
\* The latest call of the harness, and whether it was op and has returned.
LastCall == hist[Len(hist)]
Returned(op) == pc = "idle" /\ Len(hist) > 0 /\ LastCall.op = op
Pixels(im) == 1..Len(im.gray)

\* The value gv + off clamped to 0..255 over the integers.
ClampedSum(gv, off) ==
    IF off > 255 THEN 255
    ELSE IF off < -255 THEN 0
    ELSE IF gv + off > 255 THEN 255
    ELSE IF gv + off < 0 THEN 0
    ELSE gv + off

\* The sum of a sequence of numbers, last element first.
RECURSIVE SumSeq(_)
SumSeq(q) == IF q = <<>> THEN 0 ELSE q[Len(q)] + SumSeq(SubSeq(q, 1, Len(q) - 1))

\* |x - y| <= tol for two values in units of 2^-56.
NearBig(x, y, tol) ==
    /\ x[1] - y[1] \in (-1)..1
    /\ LET d1 == (x[1] - y[1]) * Limb + (x[2] - y[2])
       IN  /\ d1 \in (-1)..1
           /\ d1 * Limb + (x[3] - y[3]) \in (-tol)..tol

\* C1: whenever adjustBrightness(img, offset) is called, for any int offset,
\* it returns and every gray[i] is old gray[i] + offset clamped to 0..255, the
\* sum taken over the integers (no overflow or wrap before the clamp).
C1_BrightnessClampsExactSum ==
    (Len(hist) > 0 /\ LastCall.op = "adjustBrightness") =>
        /\ pc = "idle"
        /\ \A k \in Pixels(pre) : img.gray[k] = ClampedSum(pre.gray[k], LastCall.arg)

\* C2: after applyThreshold(img, threshold), threshold in 0..255, every gray[i]
\* is 255 if old gray[i] >= threshold and 0 otherwise, so every gray value is
\* 0 or 255, and threshold 128 maps [0,127,128,255] to [0,0,255,255].
C2_ThresholdIsBinaryInclusive ==
    Returned("applyThreshold") =>
        /\ Len(img.gray) = Len(pre.gray)
        /\ \A k \in Pixels(pre) :
              /\ pre.gray[k] >= LastCall.arg => img.gray[k] = 255
              /\ pre.gray[k] < LastCall.arg => img.gray[k] = 0
              /\ img.gray[k] \in {0, 255}
        /\ (pre.gray = <<0, 127, 128, 255>> /\ LastCall.arg = 128)
              => img.gray = <<0, 0, 255, 255>>

\* C2 witness: threshold 128 was applied to the gray values [0,127,128,255].
C2_Witness ==
    /\ Returned("applyThreshold")
    /\ LastCall.arg = 128
    /\ pre.gray = <<0, 127, 128, 255>>
    /\ img.gray = <<0, 0, 255, 255>>

\* C3: iteration i of generateImageData completes and stores
\* red = (i*123) mod 256, green = (i*456) mod 256, blue = (i*789) mod 256
\* (non-negative remainders of the integer products), for every index an int
\* can hold, also where the 32-bit product overflows.
C3_GeneratedChannels ==
    (pc \in {"gen_out", "crashed"}) =>
        /\ px.ok
        /\ px.r = ((i % 256) * 123) % 256
        /\ px.g = ((i % 256) * 456) % 256
        /\ px.b = ((i % 256) * 789) % 256

\* The exact weighted sum of a pixel, times 1000.
Weighted(im, k) == 299 * im.r[k] + 587 * im.g[k] + 114 * im.b[k]

\* C4 (as stated): after convertToGrayscale every gray[i] is the floor of the
\* real number 0.299*R + 0.587*G + 0.114*B of the same pixel.
C4_GrayIsExactFloor ==
    pc = "gray_out" =>
        \A k \in Pixels(img) : img.gray[k] = Weighted(img, k) \div 1000

\* C4 (amended): after convertToGrayscale every gray[i] is computed from the
\* same-index r, g, b, which stay as they were: it is the floor of the exact
\* weighted sum, or one less than it and then only where the exact sum is an
\* integer; it lies in 0..255 (the narrowing never wraps).
C4_GrayIsFloorOrOneLess ==
    pc = "gray_out" =>
        /\ img.r = pre.r /\ img.g = pre.g /\ img.b = pre.b
        /\ Len(img.gray) = Len(pre.gray)
        /\ \A k \in Pixels(img) :
              LET n == Weighted(pre, k)
              IN  /\ img.gray[k] \in 0..255
                  /\ img.gray[k] <= n \div 1000
                  /\ img.gray[k] >= n \div 1000 - 1
                  /\ img.gray[k] # n \div 1000 => n % 1000 = 0

\* C4 witness: a pixel whose exact sum is the integer 63 was converted to 62
\* (contracted build) next to a pixel converted to its floor.
C4_Witness ==
    /\ pc = "gray_out"
    /\ <<img.r[1], img.g[1], img.b[1]>> = <<0, 78, 151>>
    /\ img.gray[1] = 62
    /\ img.gray[2] = Weighted(img, 2) \div 1000

\* C5: calculateAverageGray on an image of at least one pixel returns the sum
\* of all gray values divided by width*height (as the nearest double), the sum
\* not overflowing; all-zero gives exactly 0, all-255 exactly 255, the result
\* lies in [0, 255], and the four channels are unchanged.
C5_AverageIsSumOverCount ==
    Returned("calculateAverageGray") =>
        LET n == pre.width * pre.height
            t == SumSeq(pre.gray)
        IN  /\ sum = t
            /\ ~avg.nan
            /\ Trunc(avg.v) = t \div n
            /\ t % n = 0 => avg.v = <<(t \div n) * 4096, 0, 0>>
            /\ NearBig(BigMulSmall(avg.v, n), <<t * 4096, 0, 0>>, n * 1024)
            /\ (\A k \in Pixels(pre) : pre.gray[k] = 0) => avg.v = <<0, 0, 0>>
            /\ (\A k \in Pixels(pre) : pre.gray[k] = 255) => avg.v = <<255 * 4096, 0, 0>>
            /\ avg.v[1] < 255 * 4096 \/ avg.v = <<255 * 4096, 0, 0>>
            /\ img = pre

\* C5 witness: the average of [0, 127] was taken: 63.5.
C5_Witness ==
    /\ Returned("calculateAverageGray")
    /\ pre.gray = <<0, 127>>
    /\ avg.v = <<63 * 4096 + 2048, 0, 0>>

\* C6: no invocation (no argument, one, two) reaches a crash or failure state.
C6_NoCrash == pc # "crashed"

\* C7: in every state, after any sequence of kernel calls, r, g, b and gray
\* have the same length, that length is width*height, and width and height
\* are those given at construction.
C7_ChannelLengths ==
    /\ Len(img.r) = img.width * img.height
    /\ Len(img.g) = Len(img.r)
    /\ Len(img.b) = Len(img.r)
    /\ Len(img.gray) = Len(img.r)
    /\ <<img.width, img.height>> = made

\* C7 witness: two different kernels have run on a 2x2 image.
C7_Witness ==
    /\ Len(hist) = 2
    /\ hist[1].op = "generateImageData"
    /\ hist[2].op = "adjustBrightness"
    /\ made = <<2, 2>>
    /\ Len(img.gray) = 4

\* The image main holds after the generate and the grayscale stage.
AfterGrayscale ==
    convertToGrayscale(generateImageData(Image(made[1], made[2]), overflow).img, contract)

\* C8: main runs generate, grayscale, average, brighten (20), threshold (128)
\* once each in this order; no stage touches a pixel before the stage before
\* it has processed every index; the average is that of the grayscale
\* output, taken before brightness and threshold change the gray channel.
C8_StagesInOrder ==
    /\ Len(trace) <= Len(Stages)
    /\ \A k \in 1..Len(trace) : trace[k] = Stages[k]
    /\ pc = "done" => trace = Stages
    /\ \A k \in 1..Len(Stages) :
          (pc = Stages[k] \/ touched[Stages[k]] # {}) =>
              /\ Len(trace) >= k - 1
              /\ \A j \in 1..(k - 1) : touched[Stages[j]] = 0..(made[1] * made[2] - 1)
    /\ Len(trace) >= 3 => avg = calculateAverageGray(AfterGrayscale)
    /\ pc = "done" =>
          img = applyThreshold(adjustBrightness(AfterGrayscale, 20, overflow).img, 128)

\* C8 witness: main is done with a 2x2 image, each stage having processed
\* all four pixels.
C8_Witness ==
    /\ pc = "done"
    /\ made = <<2, 2>>
    /\ \A k \in 1..Len(Stages) : touched[Stages[k]] = 0..3

\* C9: applyThreshold(img, t) called twice in a row, t in 1..255, leaves the
\* gray channel as the first call left it.
C9_ThresholdIdempotent ==
    ( /\ Returned("applyThreshold")
      /\ Len(hist) >= 2
      /\ hist[Len(hist) - 1] = LastCall
      /\ LastCall.arg \in 1..255 ) => img.gray = pre.gray

\* C9 witness: threshold 128 was applied twice to an image that held both
\* gray values below and gray values not below it.
C9_Witness ==
    /\ Returned("applyThreshold")
    /\ hist = <<[op |-> "applyThreshold", arg |-> 128], [op |-> "applyThreshold", arg |-> 128]>>
    /\ img.gray = <<0, 0, 255, 255>>

\* C10: with the indices processed in any order (each once), grayscale,
\* brightness and threshold end with the gray buffer the ascending loop
\* gives (and fail exactly when it fails), and the partial sums of the
\* workers add up to the sum and average the ascending loop gives.
C10_OrderIndependent ==
    LET c == hist[1]
        seqBright == adjustBrightness(pre, c.arg, overflow)
    IN  /\ pc = "joined" =>
              CASE c.op = "convertToGrayscale" -> img = convertToGrayscale(pre, contract)
                [] c.op = "adjustBrightness" -> seqBright.ok /\ img = seqBright.img
                [] c.op = "applyThreshold" -> img = applyThreshold(pre, c.arg)
                [] c.op = "calculateAverageGray" ->
                      /\ sum = SumLoop(0, pre, 0, SizeOf(pre))
                      /\ avg = calculateAverageGray(pre)
                      /\ img = pre
        /\ pc = "crashed" => c.op = "adjustBrightness" /\ ~seqBright.ok

\* C10 witness: a four-pixel image was brightened by 20 out of order, and a
\* sum was gathered by two workers.
C10_Witness ==
    /\ pc = "joined"
    /\ Len(pre.gray) = 4
    /\ \/ hist[1] = [op |-> "adjustBrightness", arg |-> 20] /\ img.gray # pre.gray
       \/ hist[1].op = "calculateAverageGray" /\ partial[1] > 0 /\ partial[2] > 0
====
